---- MODULE Spec2Model ----
(***************************************************************************)
(* A model of status_updater.py: one run of                               *)
(* SlackStatusUpdater.update_status, i.e. the quote pipeline              *)
(* (QuoteFetcher.get_random_quote with _is_appropriate and                *)
(* _categorize_quote), EmojiMatcher.get_emoji and the publish call.       *)
(*                                                                         *)
(* A Python str is a sequence of characters; a character is a one-letter  *)
(* string ("endash" stands for the single character U+2013).  A JSON      *)
(* value is a record [t, v] with t the JSON type.                         *)
(***************************************************************************)
EXTENDS Integers, Sequences, FiniteSets, TLC

\* ------------------------------------------------------------------------
\* Bounds of the model
\* ------------------------------------------------------------------------

\* Largest number of fragments a provider's quote text is made of.
MaxFrags == 2

\* ------------------------------------------------------------------------
\* Tables of the program
\* ------------------------------------------------------------------------

\* QuoteFetcher.positive_themes, in list order.
positive_themes ==
  << <<"i","n","n","o","v","a","t","i","o","n">>,
     <<"l","e","a","d","e","r","s","h","i","p">>,
     <<"t","e","c","h","n","o","l","o","g","y">>,
     <<"s","u","c","c","e","s","s">>,
     <<"g","r","o","w","t","h">>,
     <<"c","o","u","r","a","g","e">>,
     <<"w","i","s","d","o","m">>,
     <<"p","o","w","e","r">>,
     <<"v","i","c","t","o","r","y">>,
     <<"e","x","c","e","l","l","e","n","c","e">>,
     <<"c","r","e","a","t","i","v","i","t","y">>,
     <<"d","e","t","e","r","m","i","n","a","t","i","o","n">>,
     <<"s","t","r","e","n","g","t","h">>,
     <<"p","r","o","g","r","e","s","s">>,
     <<"v","i","s","i","o","n">>,
     <<"a","c","h","i","e","v","e","m","e","n","t">>,
     <<"i","n","s","p","i","r","a","t","i","o","n">>,
     <<"d","i","s","c","o","v","e","r","y">>,
     <<"b","r","e","a","k","t","h","r","o","u","g","h">>,
     <<"t","r","i","u","m","p","h">> >>

\* inappropriate_topics of _is_appropriate, in list order.
inappropriate_topics ==
  << <<"d","e","a","t","h">>,
     <<"d","y","i","n","g">>,
     <<"m","o","r","t","a","l","i","t","y">>,
     <<"k","i","l","l">>,
     <<"p","a","i","n">>,
     <<"s","u","f","f","e","r">>,
     <<"b","l","a","c","k">>,
     <<"w","h","i","t","e">>,
     <<"r","a","c","e">>,
     <<"g","e","n","d","e","r">>,
     <<"p","o","l","i","t","i","c","a","l">>,
     <<"r","e","l","i","g","i","o","n">>,
     <<"r","a","c","i","s","t">>,
     <<"s","e","x","i","s","t">>,
     <<"o","f","f","e","n","s","i","v","e">>,
     <<"c","o","n","t","r","o","v","e","r","s","i","a","l">>,
     <<"h","a","t","e">>,
     <<"d","r","u","g">>,
     <<"a","l","c","o","h","o","l">>,
     <<"n","s","f","w">>,
     <<"d","a","t","i","n","g">>,
     <<"g","a","m","b","l","i","n","g">>,
     <<"w","a","r">>,
     <<"v","i","o","l","e","n","c","e">>,
     <<"c","r","i","m","e">>,
     <<"f","e","a","r">>,
     <<"a","n","x","i","e","t","y">>,
     <<"d","e","p","r","e","s","s","i","o","n">>,
     <<"f","a","i","l">>,
     <<"n","e","g","a","t","i","v","e">>,
     <<"d","a","r","k","n","e","s","s">>,
     <<"t","r","o","u","b","l","e","d">> >>

\* categories of _categorize_quote: the dict in insertion (declaration) order.
categories ==
  << [name |-> "tech",
      keywords |-> << <<"c","o","d","e">>, <<"p","r","o","g","r","a","m">>, <<"d","e","v","e","l","o","p","e","r">>, <<"e","n","g","i","n","e","e","r">>, <<"s","y","s","t","e","m">>, <<"d","a","t","a">> >>],
     [name |-> "innovation",
      keywords |-> << <<"i","n","n","o","v","a","t","e">>, <<"c","r","e","a","t","e">>, <<"i","n","v","e","n","t">>, <<"b","u","i","l","d">>, <<"d","e","s","i","g","n">>, <<"f","u","t","u","r","e">> >>],
     [name |-> "leadership",
      keywords |-> << <<"l","e","a","d">>, <<"g","u","i","d","e">>, <<"i","n","s","p","i","r","e">>, <<"a","c","h","i","e","v","e">>, <<"v","i","s","i","o","n">>, <<"s","u","c","c","e","s","s">> >>],
     [name |-> "wisdom",
      keywords |-> << <<"l","e","a","r","n">>, <<"k","n","o","w">>, <<"u","n","d","e","r","s","t","a","n","d">>, <<"t","r","u","t","h">>, <<"m","i","n","d">>, <<"t","h","i","n","k">> >>],
     [name |-> "power",
      keywords |-> << <<"s","t","r","e","n","g","t","h">>, <<"f","o","r","c","e">>, <<"p","o","w","e","r">>, <<"s","t","r","o","n","g">>, <<"m","i","g","h","t","y">>, <<"v","a","l","o","r">> >>],
     [name |-> "victory",
      keywords |-> << <<"w","i","n">>, <<"c","o","n","q","u","e","r">>, <<"a","c","h","i","e","v","e">>, <<"t","r","i","u","m","p","h">>, <<"s","u","c","c","e","e","d">>, <<"a","c","c","o","m","p","l","i","s","h">> >>],
     [name |-> "journey",
      keywords |-> << <<"p","a","t","h">>, <<"w","a","y">>, <<"r","o","a","d">>, <<"j","o","u","r","n","e","y">>, <<"q","u","e","s","t">>, <<"a","d","v","e","n","t","u","r","e">> >>] >>

\* fallback_quotes of get_random_quote, in list order. "endash" is U+2013, one character.
fallback_quotes ==
  << [text |-> <<"I","n","n","o","v","a","t","i","o","n"," ","d","i","s","t","i","n","g","u","i","s","h","e","s"," ","b","e","t","w","e","e","n"," ","a"," ","l","e","a","d","e","r"," ","a","n","d"," ","a"," ","f","o","l","l","o","w","e","r","."," ","-"," ","S","t","e","v","e"," ","J","o","b","s">>,
      category |-> "innovation"],
     [text |-> <<"M","o","v","e"," ","f","a","s","t"," ","a","n","d"," ","l","e","a","r","n"," ","t","h","i","n","g","s","."," ","-"," ","M","e","t","a"," ","E","n","g","i","n","e","e","r","i","n","g">>,
      category |-> "tech"],
     [text |-> <<"D","o","n","e"," ","i","s"," ","b","e","t","t","e","r"," ","t","h","a","n"," ","p","e","r","f","e","c","t","."," ","-"," ","S","h","e","r","y","l"," ","S","a","n","d","b","e","r","g">>,
      category |-> "leadership"],
     [text |-> <<"M","a","k","e"," ","i","t"," ","w","o","r","k",","," ","m","a","k","e"," ","i","t"," ","r","i","g","h","t",","," ","m","a","k","e"," ","i","t"," ","f","a","s","t","."," ","-"," ","K","e","n","t"," ","B","e","c","k">>,
      category |-> "tech"],
     [text |-> <<"F","i","r","s","t"," ","s","o","l","v","e"," ","t","h","e"," ","p","r","o","b","l","e","m",","," ","t","h","e","n"," ","w","r","i","t","e"," ","t","h","e"," ","c","o","d","e","."," ","-"," ","J","o","h","n"," ","J","o","h","n","s","o","n">>,
      category |-> "tech"],
     [text |-> <<"S","t","a","y"," ","h","u","n","g","r","y",","," ","s","t","a","y"," ","f","o","o","l","i","s","h","."," ","-"," ","S","t","e","v","e"," ","J","o","b","s">>,
      category |-> "innovation"],
     [text |-> <<"T","a","l","k"," ","i","s"," ","c","h","e","a","p","."," ","S","h","o","w"," ","m","e"," ","t","h","e"," ","c","o","d","e","."," ","-"," ","L","i","n","u","s"," ","T","o","r","v","a","l","d","s">>,
      category |-> "tech"],
     [text |-> <<"C","h","a","o","s"," ","i","s","n","'","t"," ","a"," ","p","i","t","."," ","C","h","a","o","s"," ","i","s"," ","a"," ","l","a","d","d","e","r","."," ","-"," ","L","i","t","t","l","e","f","i","n","g","e","r">>,
      category |-> "wisdom"],
     [text |-> <<"T","h","e"," ","m","a","n"," ","w","h","o"," ","p","a","s","s","e","s"," ","t","h","e"," ","s","e","n","t","e","n","c","e"," ","s","h","o","u","l","d"," ","s","w","i","n","g"," ","t","h","e"," ","s","w","o","r","d","."," ","-"," ","N","e","d"," ","S","t","a","r","k">>,
      category |-> "leadership"],
     [text |-> <<"I"," ","a","m"," ","n","o","t"," ","a"," ","p","o","l","i","t","i","c","i","a","n",","," ","I"," ","a","m"," ","a"," ","q","u","e","e","n","."," ","-"," ","D","a","e","n","e","r","y","s"," ","T","a","r","g","a","r","y","e","n">>,
      category |-> "power"],
     [text |-> <<"T","h","e"," ","n","i","g","h","t"," ","i","s"," ","d","a","r","k"," ","a","n","d"," ","f","u","l","l"," ","o","f"," ","t","e","r","r","o","r","s",","," ","b","u","t"," ","t","h","e"," ","f","i","r","e"," ","b","u","r","n","s"," ","t","h","e","m"," ","a","l","l"," ","a","w","a","y","."," ","-"," ","M","e","l","i","s","a","n","d","r","e">>,
      category |-> "victory"],
     [text |-> <<"D","o","."," ","O","r"," ","d","o"," ","n","o","t","."," ","T","h","e","r","e"," ","i","s"," ","n","o"," ","t","r","y","."," ","-"," ","Y","o","d","a">>,
      category |-> "wisdom"],
     [text |-> <<"N","e","v","e","r"," ","t","e","l","l"," ","m","e"," ","t","h","e"," ","o","d","d","s","."," ","-"," ","H","a","n"," ","S","o","l","o">>,
      category |-> "courage"],
     [text |-> <<"T","h","e"," ","F","o","r","c","e"," ","w","i","l","l"," ","b","e"," ","w","i","t","h"," ","y","o","u","."," ","A","l","w","a","y","s","."," ","-"," ","O","b","i","-","W","a","n"," ","K","e","n","o","b","i">>,
      category |-> "power"],
     [text |-> <<"I","n"," ","m","y"," ","e","x","p","e","r","i","e","n","c","e",","," ","t","h","e","r","e","'","s"," ","n","o"," ","s","u","c","h"," ","t","h","i","n","g"," ","a","s"," ","l","u","c","k","."," ","-"," ","O","b","i","-","W","a","n"," ","K","e","n","o","b","i">>,
      category |-> "wisdom"],
     [text |-> <<"A","l","l"," ","w","e"," ","h","a","v","e"," ","t","o"," ","d","e","c","i","d","e"," ","i","s"," ","w","h","a","t"," ","t","o"," ","d","o"," ","w","i","t","h"," ","t","h","e"," ","t","i","m","e"," ","g","i","v","e","n"," ","u","s","."," ","-"," ","G","a","n","d","a","l","f">>,
      category |-> "wisdom"],
     [text |-> <<"E","v","e","n"," ","t","h","e"," ","s","m","a","l","l","e","s","t"," ","p","e","r","s","o","n"," ","c","a","n"," ","c","h","a","n","g","e"," ","t","h","e"," ","c","o","u","r","s","e"," ","o","f"," ","t","h","e"," ","f","u","t","u","r","e","."," ","-"," ","G","a","l","a","d","r","i","e","l">>,
      category |-> "innovation"],
     [text |-> <<"T","h","e","r","e","'","s"," ","s","o","m","e"," ","g","o","o","d"," ","i","n"," ","t","h","i","s"," ","w","o","r","l","d",","," ","a","n","d"," ","i","t","'","s"," ","w","o","r","t","h"," ","f","i","g","h","t","i","n","g"," ","f","o","r","."," ","-"," ","S","a","m">>,
      category |-> "victory"],
     [text |-> <<"I"," ","a","m"," ","I","r","o","n"," ","M","a","n","."," ","-"," ","T","o","n","y"," ","S","t","a","r","k">>,
      category |-> "power"],
     [text |-> <<"W","i","t","h"," ","g","r","e","a","t"," ","p","o","w","e","r"," ","c","o","m","e","s"," ","g","r","e","a","t"," ","r","e","s","p","o","n","s","i","b","i","l","i","t","y","."," ","-"," ","U","n","c","l","e"," ","B","e","n">>,
      category |-> "leadership"],
     [text |-> <<"I"," ","c","a","n"," ","d","o"," ","t","h","i","s"," ","a","l","l"," ","d","a","y","."," ","-"," ","S","t","e","v","e"," ","R","o","g","e","r","s">>,
      category |-> "determination"],
     [text |-> <<"I"," ","a","m"," ","n","o","t"," ","a"," ","r","o","b","o","t","."," ","I"," ","j","u","s","t"," ","s","p","e","a","k"," ","i","n"," ","c","o","d","e","."," ","-"," ","S","i","l","i","c","o","n"," ","V","a","l","l","e","y">>,
      category |-> "tech"],
     [text |-> <<"S","o","m","e","t","i","m","e","s"," ","i","t","'","s"," ","b","e","t","t","e","r"," ","t","o"," ","b","e"," ","a"," ","w","a","r","r","i","o","r"," ","i","n"," ","a"," ","g","a","r","d","e","n"," ","t","h","a","n"," ","a"," ","g","a","r","d","e","n","e","r"," ","i","n"," ","a"," ","w","a","r","."," ","-"," ","M","r","."," ","R","o","b","o","t">>,
      category |-> "wisdom"],
     [text |-> <<"I","t","'","s"," ","n","o","t"," ","a"," ","b","u","g"," ","endash"," ","i","t","'","s"," ","a","n"," ","u","n","d","o","c","u","m","e","n","t","e","d"," ","f","e","a","t","u","r","e","."," ","-"," ","P","r","o","g","r","a","m","m","i","n","g"," ","W","i","s","d","o","m">>,
      category |-> "tech"],
     [text |-> <<"T","h","e"," ","b","e","s","t"," ","w","a","y"," ","t","o"," ","p","r","e","d","i","c","t"," ","t","h","e"," ","f","u","t","u","r","e"," ","i","s"," ","t","o"," ","i","n","v","e","n","t"," ","i","t","."," ","-"," ","A","l","a","n"," ","K","a","y">>,
      category |-> "innovation"],
     [text |-> <<"C","o","d","e"," ","i","s"," ","p","o","e","t","r","y","."," ","-"," ","W","o","r","d","P","r","e","s","s">>,
      category |-> "tech"],
     [text |-> <<"T","h","i","n","k"," ","d","i","f","f","e","r","e","n","t","."," ","-"," ","A","p","p","l","e">>,
      category |-> "innovation"] >>

\* EmojiMatcher.emoji_map: each glyph is written by its short name.
emoji_map ==
  "tech" :> << "laptop", "zap", "robot", "rocket", "bulb" >>
  @@ "innovation" :> << "sparkles", "dizzy", "glowing_star", "star", "crystal_ball" >>
  @@ "leadership" :> << "crown", "dart", "lion", "crossed_swords", "shield" >>
  @@ "wisdom" :> << "brain", "books", "mortar_board", "herb", "crystal_ball" >>
  @@ "power" :> << "zap", "muscle", "fire", "crossed_swords", "sparkles" >>
  @@ "victory" :> << "trophy", "crown", "star", "glowing_star", "fire" >>
  @@ "journey" :> << "compass", "world_map", "star", "shooting_stars", "rocket" >>
  @@ "general" :> << "dizzy", "sparkles", "star", "glowing_star", "gift_heart" >>

\* max_attempts of get_random_quote.
max_attempts == 3

\* The length ceiling _is_appropriate compares the formatted quote with.
LengthCeiling == 80

\* The room _is_appropriate leaves for the author ("roughly 20 chars").
AuthorRoom == 20

\* The length a status text is to stay within: ceiling plus author room.
PlatformMaxLen == LengthCeiling + AuthorRoom

\* Seconds update_status adds to local midnight.
SecondsPerDay == 86400

\* ------------------------------------------------------------------------
\* Python strings
\* ------------------------------------------------------------------------

UpperAlpha ==
  <<"A","B","C","D","E","F","G","H","I","J","K","L","M",
    "N","O","P","Q","R","S","T","U","V","W","X","Y","Z">>

LowerAlpha ==
  <<"a","b","c","d","e","f","g","h","i","j","k","l","m",
    "n","o","p","q","r","s","t","u","v","w","x","y","z">>

\* str.lower() on one character.
LowerChar(c) ==
  IF \E i \in 1..26 : UpperAlpha[i] = c
  THEN LowerAlpha[CHOOSE i \in 1..26 : UpperAlpha[i] = c]
  ELSE c

\* str.upper() on one character.
UpperChar(c) ==
  IF \E i \in 1..26 : LowerAlpha[i] = c
  THEN UpperAlpha[CHOOSE i \in 1..26 : LowerAlpha[i] = c]
  ELSE c

\* s.lower()
lower(s) == [i \in 1..Len(s) |-> LowerChar(s[i])]

\* s.upper()
upper(s) == [i \in 1..Len(s) |-> UpperChar(s[i])]

\* Python's `t in s` on two strings: t occurs in s as a substring.
Contains(s, t) ==
  \E i \in 0..(Len(s) - Len(t)) : \A j \in 1..Len(t) : s[i + j] = t[j]

\* any(e in s for e in list)
AnyIn(list, s) == \E k \in 1..Len(list) : Contains(s, list[k])

\* ------------------------------------------------------------------------
\* JSON values and f-string formatting
\* ------------------------------------------------------------------------

Str(s) == [t |-> "str", v |-> s]
Null == [t |-> "null", v |-> <<>>]
Obj(f) == [t |-> "object", v |-> f]
Arr(items) == [t |-> "array", v |-> items]

\* What "{x}" renders inside an f-string: a str as itself, None as "None".
fstr(x) == IF x.t = "str" THEN x.v ELSE <<"N","o","n","e">>

\* The format with a bare hyphen between quote and author.
format_quote_no_spaces(quote, author) == fstr(quote) \o <<"-">> \o fstr(author)

\* f"{quote} - {author}"
format_quote(quote, author) == fstr(quote) \o <<" ","-"," ">> \o fstr(author)

\* ------------------------------------------------------------------------
\* QuoteFetcher._is_appropriate
\* ------------------------------------------------------------------------

\* The filter with the blocklist test on the text as given, not lowercased.
_is_appropriate_case_sensitive(text) ==
  IF Len(fstr(text) \o <<" ","-"," ">>) > LengthCeiling THEN "False"
  ELSE IF text.t # "str" THEN "AttributeError"
  ELSE IF AnyIn(inappropriate_topics, text.v) THEN "False"
  ELSE IF AnyIn(positive_themes, lower(text.v)) THEN "True" ELSE "False"

\* The filter measuring the bare text, without the " - " of the format.
_is_appropriate_bare_length(text) ==
  IF Len(fstr(text)) > LengthCeiling THEN "False"
  ELSE IF text.t # "str" THEN "AttributeError"
  ELSE IF AnyIn(inappropriate_topics, lower(text.v)) THEN "False"
  ELSE IF AnyIn(positive_themes, lower(text.v)) THEN "True" ELSE "False"

\* The filter on length and blocklist only, without the positive themes.
_is_appropriate_blocklist_only(text) ==
  IF Len(fstr(text) \o <<" ","-"," ">>) > LengthCeiling THEN "False"
  ELSE IF text.t # "str" THEN "AttributeError"
  ELSE IF AnyIn(inappropriate_topics, lower(text.v)) THEN "False"
  ELSE "True"

\* _is_appropriate(text): "True" or "False" for the value returned,
\* "AttributeError" when text.lower() raises because text is not a str.
_is_appropriate(text) ==
  IF Len(fstr(text) \o <<" ","-"," ">>) > LengthCeiling THEN "False"
  ELSE IF text.t # "str" THEN "AttributeError"
  ELSE IF AnyIn(inappropriate_topics, lower(text.v)) THEN "False"
  ELSE IF AnyIn(positive_themes, lower(text.v)) THEN "True" ELSE "False"

\* ------------------------------------------------------------------------
\* QuoteFetcher._categorize_quote
\* ------------------------------------------------------------------------

\* The loop over categories.items() from the i-th item on.
RECURSIVE CategorizeFrom(_, _)
CategorizeFrom(quote_lower, i) ==
  IF i > Len(categories) THEN "general"
  ELSE IF AnyIn(categories[i].keywords, quote_lower) THEN categories[i].name
  ELSE CategorizeFrom(quote_lower, i + 1)

\* The categorizer matching keywords against the quote as given.
_categorize_quote_case_sensitive(quote) == CategorizeFrom(quote, 1)

\* _categorize_quote(quote)
_categorize_quote(quote) == CategorizeFrom(lower(quote), 1)

\* The returned pair with the category taken from the formatted string.
live_pair_categorize_formatted(quote, author) ==
  [text |-> format_quote(quote, author),
   category |-> _categorize_quote(format_quote(quote, author))]

\* return f"{quote} - {author}", self._categorize_quote(quote), line 108.
live_pair(quote, author) ==
  [text |-> format_quote(quote, author),
   category |-> _categorize_quote(quote.v)]

\* ------------------------------------------------------------------------
\* EmojiMatcher.get_emoji
\* ------------------------------------------------------------------------

\* The lookup falling back to the first configured set instead of 'general'.
emoji_map_get_first(category) ==
  IF category \in DOMAIN emoji_map THEN emoji_map[category]
  ELSE emoji_map["tech"]

\* self.emoji_map.get(category, self.emoji_map['general'])
emoji_map_get(category) ==
  IF category \in DOMAIN emoji_map THEN emoji_map[category]
  ELSE emoji_map["general"]

\* ------------------------------------------------------------------------
\* Providers and what a request to one can produce
\* ------------------------------------------------------------------------

\* api['process'] of the two providers; exc is the exception the lambda
\* raises ("" when it returns the pair).
Extracted(q, a) == [exc |-> "", quote |-> q, author |-> a]
ProcessRaises(e) == [exc |-> e, quote |-> Null, author |-> Null]

\* lambda r: (r['content'], r['author'])
process_quotable(r) ==
  IF r.t = "array" THEN ProcessRaises("TypeError")
  ELSE IF "content" \notin DOMAIN r.v \/ "author" \notin DOMAIN r.v
       THEN ProcessRaises("KeyError")
  ELSE Extracted(r.v["content"], r.v["author"])

\* lambda r: (r[0]['q'], r[0]['a'])
process_zenquotes(r) ==
  IF r.t = "object" THEN ProcessRaises("KeyError")
  ELSE IF Len(r.v) = 0 THEN ProcessRaises("IndexError")
  ELSE IF "q" \notin DOMAIN r.v[1].v \/ "a" \notin DOMAIN r.v[1].v
       THEN ProcessRaises("KeyError")
  ELSE Extracted(r.v[1].v["q"], r.v[1].v["a"])

\* self.apis, in list order.
apis == << "quotable", "zenquotes" >>

process(api, r) ==
  IF api = "quotable" THEN process_quotable(r) ELSE process_zenquotes(r)

\* Fragments the quote texts of the model are made of.
Frags ==
  { <<"P","o","w","e","r"," ">>,
    <<"g","r","o","w","t","h"," ">>,
    <<"T","r","i","u","m","p","h"," ">>,
    <<"v","i","s","i","o","n"," ">>,
    <<"c","o","d","e"," ">>,
    <<"b","u","i","l","d"," ">>,
    <<"l","e","a","r","n"," ">>,
    <<"w","a","y"," ">>,
    <<"A","W","A","R","D"," ">> }

\* Numbers of filler characters appended to a text.
Pads == {0, 70}

RECURSIVE FragTexts(_)
FragTexts(n) ==
  IF n = 0 THEN { <<>> }
  ELSE LET shorter == FragTexts(n - 1)
       IN shorter \cup { s \o f : s \in shorter, f \in Frags }

Filler(n) == [i \in 1..n |-> "z"]

\* The quote texts a provider returns in the model.
Texts == { s \o Filler(p) : s \in FragTexts(MaxFrags), p \in Pads }

\* The attributions a provider returns in the model.
Authors ==
  { Str(<<"Y","o","d","a">>),
    Str(<<"M","o","n","t","g","o","m","e","r","y"," ","S","c","o","t","t",
          ","," ","E","n","g","i","n","e","e","r">>),
    Null }

\* JSON bodies: the two provider schemas, and bodies neither rule can read.
FlatBody(q, a) == Obj("content" :> q @@ "author" :> a)
NestedBody(q, a) == Arr(<< Obj("q" :> q @@ "a" :> a) >>)

MalformedBodies ==
  { Arr(<<>>),
    Obj("statusCode" :> Str(<<"4","0","4">>)),
    FlatBody(Null, Null),
    NestedBody(Null, Str(<<"Y","o","d","a">>)) }

Bodies ==
  { FlatBody(Str(q), a) : q \in Texts, a \in Authors }
    \cup { NestedBody(Str(q), a) : q \in Texts, a \in Authors }
    \cup MalformedBodies

\* What requests.get / raise_for_status / response.json() produce.
Responses ==
  { [kind |-> "ConnectionError", body |-> Null],
    [kind |-> "Timeout", body |-> Null],
    [kind |-> "HTTPError", body |-> Null],
    [kind |-> "JSONDecodeError", body |-> Null] }
    \cup { [kind |-> "json", body |-> b] : b \in Bodies }

\* The try block returning the candidate whatever the filter says.
try_body_unfiltered(api, resp) ==
  IF resp.kind # "json"
  THEN [exc |-> resp.kind, quote |-> Null, author |-> Null, verdict |-> ""]
  ELSE LET p == process(api, resp.body)
       IN IF p.exc # ""
          THEN [exc |-> p.exc, quote |-> Null, author |-> Null, verdict |-> ""]
          ELSE IF p.quote.t # "str"
          THEN [exc |-> "AttributeError", quote |-> p.quote,
                author |-> p.author, verdict |-> ""]
          ELSE [exc |-> "", quote |-> p.quote, author |-> p.author,
                verdict |-> "True"]

\* The body of the try block of one loop iteration, lines 99-108:
\* exc is the exception raised in it ("" when none), verdict the value of
\* _is_appropriate(quote) when it was reached and returned.
try_body(api, resp) ==
  IF resp.kind # "json"
  THEN [exc |-> resp.kind, quote |-> Null, author |-> Null, verdict |-> ""]
  ELSE LET p == process(api, resp.body)
       IN IF p.exc # ""
          THEN [exc |-> p.exc, quote |-> Null, author |-> Null, verdict |-> ""]
          ELSE LET ok == _is_appropriate(p.quote)
               IN IF ok = "AttributeError"
                  THEN [exc |-> ok, quote |-> p.quote, author |-> p.author,
                        verdict |-> ""]
                  ELSE [exc |-> "", quote |-> p.quote, author |-> p.author,
                        verdict |-> ok]

\* What one iteration's try block can come to: its outcome for every
\* provider random.choice(self.apis) can pick and every response to the
\* request.
AttemptOutcomes ==
  { try_body(apis[a], resp) : a \in 1..Len(apis), resp \in Responses }

\* The handler that catches only the errors of the requests library.
caught_requests_only(exc) ==
  exc \in {"ConnectionError", "Timeout", "HTTPError", "JSONDecodeError"}

\* `except Exception`: every exception the try block raises is caught.
caught(exc) == TRUE

\* The loop going on to the next attempt after an exception.
after_exception_continue(n) ==
  IF n < max_attempts THEN [state |-> "Attempting", attempt |-> n + 1]
  ELSE [state |-> "FellBack", attempt |-> n]

\* The loop started over after an exception.
after_exception_restart(n) == [state |-> "Attempting", attempt |-> 1]

\* `break` in the except clause: the loop is left.
after_exception(n) == [state |-> "FellBack", attempt |-> n]

\* The loop left on the first rejection.
after_reject_break(n) == [state |-> "FellBack", attempt |-> n]

\* The loop allowing one attempt more than max_attempts.
after_reject_extra(n) ==
  IF n < max_attempts + 1 THEN [state |-> "Attempting", attempt |-> n + 1]
  ELSE [state |-> "FellBack", attempt |-> n]

\* The loop with one iteration fewer than max_attempts.
after_reject_one_fewer(n) ==
  IF n < max_attempts - 1 THEN [state |-> "Attempting", attempt |-> n + 1]
  ELSE [state |-> "FellBack", attempt |-> n]

\* `continue` under `for _ in range(max_attempts)`: the next iteration, or
\* the end of the loop after the last one.
after_reject(n) ==
  IF n < max_attempts THEN [state |-> "Attempting", attempt |-> n + 1]
  ELSE [state |-> "FellBack", attempt |-> n]

\* ------------------------------------------------------------------------
\* SlackStatusUpdater.update_status
\* ------------------------------------------------------------------------

\* The expiration counted from midnight UTC instead of local midnight.
tomorrow_utc(now, utcoffset) == (now - (now % SecondsPerDay)) + SecondsPerDay

\* datetime.now().replace(hour=0, minute=0, second=0, microsecond=0)
\* .timestamp() + 86400, for the Unix time now in a zone utcoffset seconds
\* east of UTC.
tomorrow(now, utcoffset) ==
  LET local == now + utcoffset
      midnight == local - (local % SecondsPerDay)
  IN (midnight - utcoffset) + SecondsPerDay

\* Unix times at which the run reads the clock.
Times == {1762214400, 1762214401, 1762300799}

\* UTC offsets of the local zone, in seconds.
UtcOffsets == {-18000, 0, 19800}

\* The except clause that logs and swallows the error.
on_publish_error_swallow(e) ==
  [log |-> [line |-> "Error updating status", e |-> e], raised |-> ""]

\* The except clause of update_status: print, then `raise e`.
on_publish_error(e) ==
  [log |-> [line |-> "Error updating status", e |-> e],
   raised |-> "users_profile_set"]

\* The profile with the status text cut at the length ceiling.
profile_cut(quote, emoji, expiration) ==
  [status_text |-> SubSeq(quote, 1, IF Len(quote) < LengthCeiling
                                     THEN Len(quote) ELSE LengthCeiling),
   status_emoji |-> emoji,
   status_expiration |-> expiration]

\* The profile dict passed to users_profile_set, lines 212-216.
profile(quote, emoji, expiration) ==
  [status_text |-> quote,
   status_emoji |-> emoji,
   status_expiration |-> expiration]

NoResult == [text |-> <<>>, category |-> ""]
NoPayload == [status_text |-> <<>>, status_emoji |-> "", status_expiration |-> 0]

VARIABLES
  pc,             \* the call update_status is at, "done" after it ended
  state,          \* the pipeline's state: Attempting, Succeeded, FellBack
  attempt,        \* the iteration of `for _ in range(max_attempts)`
  fetches,        \* calls of requests.get so far
  rejects,        \* candidates _is_appropriate has rejected so far
  quote,          \* quote of the candidate the loop returned with
  author,         \* author of the candidate the loop returned with
  verdict,        \* what _is_appropriate returned for that candidate
  result,         \* the pair get_random_quote returned
  emoji,          \* the glyph get_emoji returned
  payload,        \* the profile passed to users_profile_set
  publish_calls,  \* calls of users_profile_set so far
  now,            \* the Unix time datetime.now() read
  utcoffset,      \* seconds the local zone is east of UTC at that time
  raised,         \* the call whose exception update_status re-raised
  published,      \* how the users_profile_set call ended: "ok" or its error
  logs,           \* the lines printed: the fixed prefix and the exception
  arg,            \* the text one call of a function of the fetcher is given
  ret             \* the value that call returned

vars ==
  << pc, state, attempt, fetches, rejects, quote, author, verdict, result,
     emoji, payload, publish_calls, now, utcoffset, raised, published, logs,
     arg, ret >>

pipelineVars == << state, attempt, fetches, rejects, quote, author, verdict >>
callVars == << arg, ret >>

NoRet == [appropriate |-> "", category |-> "", pair |-> NoResult]

Init ==
  /\ pc = "get_random_quote"
  /\ state = "Attempting"
  /\ attempt = 1
  /\ fetches = 0
  /\ rejects = 0
  /\ quote = Null
  /\ author = Null
  /\ verdict = ""
  /\ result = NoResult
  /\ emoji = ""
  /\ payload = NoPayload
  /\ publish_calls = 0
  /\ now = 0
  /\ utcoffset = 0
  /\ raised = ""
  /\ published = ""
  /\ logs = <<>>
  /\ arg = Null
  /\ ret = NoRet

\* One iteration of the loop of get_random_quote, lines 96-112.
Attempt ==
  /\ pc = "get_random_quote"
  /\ state = "Attempting"
  /\ \E out \in AttemptOutcomes :
          /\ fetches' = fetches + 1
          /\ IF out.exc # "" /\ caught(out.exc)
             THEN LET to == after_exception(attempt)
                  IN /\ state' = to.state
                     /\ attempt' = to.attempt
                     /\ logs' = Append(logs, [line |-> "API Error", e |-> out.exc])
                     /\ UNCHANGED << pc, rejects, quote, author, verdict,
                                     result, raised >>
             ELSE IF out.exc # ""
             THEN /\ pc' = "done"
                  /\ raised' = "get_random_quote"
                  /\ logs' = Append(logs, [line |-> "Error updating status",
                                         e |-> out.exc])
                  /\ UNCHANGED << state, attempt, rejects, quote, author,
                                  verdict, result >>
             ELSE IF out.verdict = "False"
             THEN LET to == after_reject(attempt)
                  IN /\ state' = to.state
                     /\ attempt' = to.attempt
                     /\ rejects' = rejects + 1
                     /\ UNCHANGED << pc, quote, author, verdict, result,
                                     raised, logs >>
             ELSE /\ state' = "Succeeded"
                  /\ quote' = out.quote
                  /\ author' = out.author
                  /\ verdict' = "True"
                  /\ result' = live_pair(out.quote, out.author)
                  /\ pc' = "get_emoji"
                  /\ UNCHANGED << attempt, rejects, raised, logs >>
  /\ UNCHANGED << emoji, payload, publish_calls, now, utcoffset, published,
                  arg, ret >>

\* After the loop: random.choice(fallback_quotes), lines 114-157.
Fallback ==
  /\ pc = "get_random_quote"
  /\ state = "FellBack"
  /\ \E i \in 1..Len(fallback_quotes) :
       result' = [text |-> fallback_quotes[i].text,
                  category |-> fallback_quotes[i].category]
  /\ pc' = "get_emoji"
  /\ UNCHANGED << pipelineVars, emoji, payload, publish_calls, now, utcoffset,
                  raised, published, logs, arg, ret >>

\* emoji = self.emoji_matcher.get_emoji(category), line 204 (177-179).
GetEmoji ==
  /\ pc = "get_emoji"
  /\ LET set == emoji_map_get(result.category)
     IN \E i \in 1..Len(set) : emoji' = set[i]
  /\ pc' = "users_profile_set"
  /\ UNCHANGED << pipelineVars, result, payload, publish_calls, now, utcoffset,
                  raised, published, logs, arg, ret >>

\* The expiration, the publish call and what follows it, lines 206-222.
Publish ==
  /\ pc = "users_profile_set"
  /\ \E t \in Times, off \in UtcOffsets, outcome \in {"ok", "SlackApiError"} :
       /\ now' = t
       /\ utcoffset' = off
       /\ payload' = profile(result.text, emoji, tomorrow(t, off))
       /\ publish_calls' = publish_calls + 1
       /\ published' = outcome
       /\ IF outcome = "ok"
          THEN /\ logs' = Append(logs, [line |-> "Status updated successfully",
                                            e |-> ""])
               /\ raised' = ""
          ELSE LET h == on_publish_error(outcome)
               IN /\ logs' = Append(logs, h.log)
                  /\ raised' = h.raised
  /\ pc' = "done"
  /\ UNCHANGED << pipelineVars, result, emoji, arg, ret >>

Next == Attempt \/ Fallback \/ GetEmoji \/ Publish

Spec == Init /\ [][Next]_vars

\* One call of get_random_quote on its own.  requests.get has timeout=5,
\* so every iteration of the loop ends, and random.choice returns: a call
\* that can take a step takes it.
NextPipeline == Attempt \/ Fallback

SpecPipeline ==
  Init /\ [][NextPipeline]_vars /\ WF_vars(Attempt) /\ WF_vars(Fallback)

\* ------------------------------------------------------------------------
\* The filter and the categorizer as functions of their argument
\* ------------------------------------------------------------------------

\* Every blocklisted token in lower, upper and capitalised form.
Capitalised(s) == [i \in 1..Len(s) |-> IF i = 1 THEN UpperChar(s[i]) ELSE s[i]]

TokenForms ==
  UNION { { inappropriate_topics[k], upper(inappropriate_topics[k]),
            Capitalised(inappropriate_topics[k]) } :
          k \in 1..Len(inappropriate_topics) }

\* The quote text and the attribution of the documented scenario.
ScenarioText ==
  <<"M","o","v","e"," ","f","a","s","t"," ","a","n","d"," ","l","e","a","r","n"," ","t","h","i","n","g","s",".">>

ScenarioAuthor ==
  <<"M","e","t","a"," ","E","n","g","i","n","e","e","r","i","n","g">>

\* The texts the calls are given: the provider texts, the scenario text
\* bare and formatted with its attribution, and each token form alone or
\* after a positive theme, with and without filler.
CallTexts ==
  Texts \cup
  { ScenarioText, format_quote(Str(ScenarioText), Str(ScenarioAuthor)) } \cup
  { pre \o tok \o Filler(p) :
      pre \in { <<>>, <<"P","o","w","e","r"," ">> }, tok \in TokenForms,
      p \in Pads }

\* The arguments of a call: a text, and the attribution it is returned
\* with.
CallArgs ==
  { << Str(s), Str(<<"Y","o","d","a">>) >> : s \in CallTexts }
    \cup { << Str(ScenarioText), Str(ScenarioAuthor) >> }

InitCalls ==
  /\ pc = "call"
  /\ state = "Attempting"
  /\ attempt = 1
  /\ fetches = 0
  /\ rejects = 0
  /\ quote = Null
  /\ \E a \in CallArgs : arg = a[1] /\ author = a[2]
  /\ verdict = ""
  /\ result = NoResult
  /\ emoji = ""
  /\ payload = NoPayload
  /\ publish_calls = 0
  /\ now = 0
  /\ utcoffset = 0
  /\ raised = ""
  /\ published = ""
  /\ logs = <<>>
  /\ ret = NoRet

\* self._is_appropriate(arg)
CallIsAppropriate ==
  /\ pc = "call"
  /\ ret' = [ret EXCEPT !.appropriate = _is_appropriate(arg)]
  /\ pc' = "returned"
  /\ UNCHANGED << pipelineVars, result, emoji, payload, publish_calls,
                  now, utcoffset, raised, published, logs, arg >>

\* self._categorize_quote(arg)
CallCategorize ==
  /\ pc = "call"
  /\ ret' = [ret EXCEPT !.category = _categorize_quote(arg.v)]
  /\ pc' = "returned"
  /\ UNCHANGED << pipelineVars, result, emoji, payload, publish_calls,
                  now, utcoffset, raised, published, logs, arg >>

\* The return expression of line 108 on arg and author.
CallReturnPair ==
  /\ pc = "call"
  /\ ret' = [ret EXCEPT !.pair = live_pair(arg, author)]
  /\ pc' = "returned"
  /\ UNCHANGED << pipelineVars, result, emoji, payload, publish_calls,
                  now, utcoffset, raised, published, logs, arg >>

NextCalls == CallIsAppropriate \/ CallCategorize \/ CallReturnPair

SpecCalls == InitCalls /\ [][NextCalls]_vars

\* ------------------------------------------------------------------------
\* Properties
\* ------------------------------------------------------------------------

\* The pairs of the fallback pool.
FallbackPairs ==
  { [text |-> fallback_quotes[i].text, category |-> fallback_quotes[i].category] :
    i \in 1..Len(fallback_quotes) }

\* The exceptions the "API Error" lines printed so far report.
ApiErrors == { logs[i].e : i \in { j \in 1..Len(logs) : logs[j].line = "API Error" } }

\* get_random_quote has returned to update_status.
Returned == pc \in {"get_emoji", "users_profile_set", "done"}

\* C1: whatever the provider, the fetch outcome and the filter outcome of
\* each attempt, get_random_quote does not raise and returns a pair of a
\* text and a category; once a fetch or extraction failure was caught the
\* pipeline is on the fallback path and the pair is one of the pool.
C1_NeverRaises ==
  /\ raised # "get_random_quote"
  /\ pc = "get_random_quote" => state \in {"Attempting", "FellBack"}
  /\ Returned =>
       /\ state \in {"Succeeded", "FellBack"}
       /\ Len(result.text) > 0
       /\ result.category # ""
  /\ ApiErrors # {} =>
       /\ state = "FellBack"
       /\ Returned => result \in FallbackPairs

\* C1 witness: a response whose shape the extraction rule cannot read was
\* absorbed and a fallback pair came back.
C1_Witness ==
  /\ Returned
  /\ ApiErrors \cap {"KeyError", "IndexError", "TypeError"} # {}
  /\ result \in FallbackPairs

\* C2: a fetch failure on attempt n takes the pipeline straight to FellBack
\* with exactly n fetch calls made, no fetch call follows it, and the pair
\* then returned is a fallback pair.
C2_FetchFailureAborts ==
  [][ /\ (Len(logs') > Len(logs) /\ logs'[Len(logs')].line = "API Error") =>
           /\ state' = "FellBack"
           /\ attempt' = attempt
           /\ fetches' = attempt
      /\ ApiErrors # {} =>
           /\ fetches' = fetches
           /\ state' = "FellBack"
           /\ (pc = "get_random_quote" /\ pc' # pc) => result' \in FallbackPairs
    ]_vars

\* C2 witness: the fetch of attempt 2 failed and the run ended with a
\* fallback pair after two fetch calls.
C2_Witness ==
  /\ pc = "done"
  /\ ApiErrors # {}
  /\ rejects = 1
  /\ fetches = 2
  /\ result \in FallbackPairs

\* C3: a rejection on an attempt before the last leads to the next attempt,
\* and a pipeline that succeeded after k - 1 rejections made exactly k fetch
\* calls and returns the candidate of attempt k.
C3_RejectionRetries ==
  /\ [](state = "Succeeded" =>
          /\ fetches = rejects + 1
          /\ fetches = attempt
          /\ fetches <= max_attempts
          /\ ApiErrors = {}
          /\ quote.t = "str"
          /\ result.text = quote.v \o <<" ", "-", " ">> \o fstr(author))
  /\ [][ (rejects' = rejects + 1 /\ attempt < max_attempts) =>
           /\ state' = "Attempting"
           /\ attempt' = attempt + 1
       ]_vars

\* C3 witness: two rejections, then the candidate of attempt 3 returned.
C3_Witness ==
  /\ state = "Succeeded"
  /\ rejects = 2
  /\ fetches = 3
  /\ result.text = format_quote(quote, author)

\* C4: the number of fetch calls never exceeds max_attempts, and after
\* three rejections the pipeline is in FellBack and returns a fallback pair.
C4_AtMostMaxAttempts ==
  /\ fetches <= max_attempts
  /\ attempt <= max_attempts
  /\ rejects = max_attempts =>
       /\ state = "FellBack"
       /\ fetches = max_attempts
       /\ Returned => result \in FallbackPairs

\* C4 witness: three rejected candidates, then a fallback pair.
C4_Witness ==
  /\ pc = "done"
  /\ rejects = 3
  /\ fetches = 3
  /\ ApiErrors = {}
  /\ result \in FallbackPairs

\* C5: every text the pipeline returns and every text handed to the
\* publisher is at most the platform maximum of 100 characters long.
C5_TextWithinPlatformMax ==
  /\ Returned => Len(result.text) <= PlatformMaxLen
  /\ publish_calls > 0 => Len(payload.status_text) <= PlatformMaxLen

\* C6: a failed publish call is logged and re-raised; a publish call that
\* succeeded ends update_status without error, whatever came before it.
C6_OnlyPublishFails ==
  pc = "done" =>
    /\ published \in {"ok", "SlackApiError"}
    /\ published = "SlackApiError" =>
         /\ raised = "users_profile_set"
         /\ logs[Len(logs)] = [line |-> "Error updating status", e |-> published]
    /\ published = "ok" =>
         /\ raised = ""
         /\ logs[Len(logs)].line = "Status updated successfully"

\* C6 witness: a run with a rejection and then a fetch error in which the
\* publish call succeeded and nothing was raised.
C6_Witness ==
  /\ pc = "done"
  /\ published = "ok"
  /\ raised = ""
  /\ rejects > 0
  /\ ApiErrors # {}

\* t occurs in s with each letter in either case.
OccursAnyCase(s, t) ==
  LET capitals == upper(t)
  IN \E i \in 0..(Len(s) - Len(t)) :
       \A j \in 1..Len(t) : s[i + j] = t[j] \/ s[i + j] = capitals[j]

Blocklisted(s) ==
  \E k \in 1..Len(inappropriate_topics) : OccursAnyCase(s, inappropriate_topics[k])

HasPositiveTheme(s) ==
  \E k \in 1..Len(positive_themes) : OccursAnyCase(s, positive_themes[k])

\* C7: a text that contains a blocklisted token in any letter case is
\* rejected, whatever its length and its positive themes.
C7_BlocklistRejects ==
  (ret.appropriate # "" /\ Blocklisted(arg.v)) => ret.appropriate = "False"

\* C7 witness: a short text with a positive theme and an upper-case
\* blocklisted token was rejected.
C7_Witness ==
  /\ ret.appropriate = "False"
  /\ Len(arg.v) + 3 <= LengthCeiling
  /\ HasPositiveTheme(arg.v)
  /\ \E k \in 1..Len(inappropriate_topics) :
       Contains(arg.v, upper(inappropriate_topics[k]))

\* C8: a text whose length plus the three characters of " - " exceeds the
\* ceiling of 80 is rejected, even with a positive theme and no
\* blocklisted token.
C8_TooLongRejects ==
  (ret.appropriate # "" /\ Len(arg.v) + 3 > LengthCeiling) =>
    ret.appropriate = "False"

\* C8 witness: a 78-character text with a positive theme and no blocklisted
\* token was rejected.
C8_Witness ==
  /\ ret.appropriate = "False"
  /\ Len(arg.v) = 78
  /\ HasPositiveTheme(arg.v)
  /\ ~Blocklisted(arg.v)

\* Category i of the table has a keyword occurring in s, in any case.
CategoryMatches(i, s) ==
  \E k \in 1..Len(categories[i].keywords) :
    OccursAnyCase(s, categories[i].keywords[k])

\* C9: the category is the first one of the declaration order tech,
\* innovation, leadership, wisdom, power, victory, journey with a keyword
\* in the text (case-insensitive), and 'general' exactly when none has.
C9_FirstMatchingCategory ==
  ret.category # "" =>
    /\ [i \in 1..Len(categories) |-> categories[i].name] =
         <<"tech", "innovation", "leadership", "wisdom", "power", "victory",
           "journey">>
    /\ ret.category = "general" <=>
         \A i \in 1..Len(categories) : ~CategoryMatches(i, arg.v)
    /\ ret.category # "general" =>
         \E i \in 1..Len(categories) :
           /\ ret.category = categories[i].name
           /\ CategoryMatches(i, arg.v)
           /\ \A j \in 1..(i - 1) : ~CategoryMatches(j, arg.v)

\* C9 witness: a text with a keyword of tech and a capitalised keyword of
\* power was given the earlier category.
C9_Witness ==
  /\ ret.category = "tech"
  /\ CategoryMatches(5, arg.v)
  /\ \E i \in 1..Len(arg.v) : arg.v[i] # LowerChar(arg.v[i])

\* The glyphs configured for a label: its own set, or the set of 'general'
\* when it has none.
ConfiguredGlyphs(label) ==
  LET key == IF label \in DOMAIN emoji_map THEN label ELSE "general"
  IN { emoji_map[key][i] : i \in 1..Len(emoji_map[key]) }

\* C10: the glyph chosen for the returned category is one of the set
\* configured for that category, or of the set of 'general' when the
\* category has none, and that set is not empty.
C10_GlyphFromCategorySet ==
  pc \in {"users_profile_set", "done"} =>
    /\ ConfiguredGlyphs(result.category) # {}
    /\ emoji \in ConfiguredGlyphs(result.category)

\* C10 witness: a glyph was chosen for a fallback label without a set.
C10_Witness ==
  /\ pc = "done"
  /\ result.category \notin DOMAIN emoji_map
  /\ emoji \in ConfiguredGlyphs("general")

\* The quote text of a formatted "text - attribution" string: what
\* precedes its last " - ".
QuoteTextOf(s) ==
  LET at == { i \in 1..(Len(s) - 2) : SubSeq(s, i, i + 2) = <<" ", "-", " ">> }
  IN IF at = {} THEN s
     ELSE SubSeq(s, 1, (CHOOSE i \in at : \A j \in at : j <= i) - 1)

\* The categories of the keyword table, and 'general'.
CategorySet ==
  {"tech", "innovation", "leadership", "wisdom", "power", "victory",
   "journey", "general"}

\* C11: the quote text of every pair returned in FellBack passes
\* _is_appropriate, as the quote text of a pair returned in Succeeded does.
C11_FallbackPassesFilter ==
  (state = "FellBack" /\ Returned) =>
    _is_appropriate(Str(QuoteTextOf(result.text))) = "True"

\* C12: the category of every pair the pipeline returns is one of tech,
\* innovation, leadership, wisdom, power, victory, journey, general.
C12_CategoryInFixedSet ==
  Returned => result.category \in CategorySet

\* C13: a run makes exactly one publish call; the call is made only once
\* the pipeline is in Succeeded or FellBack and has returned, with the
\* returned text as status text; no fetch call follows it.
C13_OnePublishAfterPipeline ==
  /\ [](/\ publish_calls <= 1
        /\ pc = "done" => publish_calls = 1
        /\ publish_calls = 1 =>
             /\ state \in {"Succeeded", "FellBack"}
             /\ payload.status_text = result.text
             /\ payload.status_emoji = emoji)
  /\ [][ /\ publish_calls' # publish_calls =>
              /\ publish_calls' = publish_calls + 1
              /\ state \in {"Succeeded", "FellBack"}
              /\ result # NoResult
              /\ payload'.status_text = result.text
         /\ publish_calls > 0 => (fetches' = fetches /\ result' = result)
       ]_vars

\* C13 witness: a run that made three fetch calls ended after one publish
\* call that carried the returned live text of more than 80 characters.
C13_Witness ==
  /\ pc = "done"
  /\ state = "Succeeded"
  /\ fetches = 3
  /\ publish_calls = 1
  /\ Len(result.text) > LengthCeiling
  /\ payload.status_text = result.text

\* 'Move fast and learn things. - Meta Engineering'
ScenarioFormatted ==
  <<"M","o","v","e"," ","f","a","s","t"," ","a","n","d"," ","l","e","a","r",
    "n"," ","t","h","i","n","g","s","."," ","-"," ","M","e","t","a"," ","E",
    "n","g","i","n","e","e","r","i","n","g">>

\* The pair was computed for the scenario's quote text and attribution.
ScenarioCalled ==
  /\ arg = Str(ScenarioText)
  /\ author = Str(ScenarioAuthor)
  /\ ret.pair # NoResult

C15_StrictPolicy ==
  (/\ ret.appropriate # ""
   /\ Len(arg.v) + 3 <= LengthCeiling
   /\ ~Blocklisted(arg.v)) =>
    /\ ret.appropriate \in {"True", "False"}
    /\ ret.appropriate = "True" <=> HasPositiveTheme(arg.v)

\* C15 witness: a short text with a category keyword, no blocklisted token
\* and no positive theme was rejected.
C15_Witness ==
  /\ ret.appropriate = "False"
  /\ Len(arg.v) > 0
  /\ Len(arg.v) + 3 <= LengthCeiling
  /\ ~Blocklisted(arg.v)
  /\ ~HasPositiveTheme(arg.v)
  /\ CategoryMatches(1, arg.v)

\* C17: the published expiration is later than the time of the run, at most
\* 86400 seconds later, and a midnight of the local zone.
C17_ExpirationNextMidnight ==
  publish_calls > 0 =>
    /\ payload.status_expiration > now
    /\ payload.status_expiration - now <= 86400
    /\ (payload.status_expiration + utcoffset) % 86400 = 0

\* C17 witness: a run in a zone east of UTC published the next local
\* midnight, which is not a midnight UTC.
C17_Witness ==
  /\ publish_calls = 1
  /\ utcoffset > 0
  /\ payload.status_expiration > now
  /\ (payload.status_expiration + utcoffset) % 86400 = 0
  /\ payload.status_expiration % 86400 # 0

\* s starts with the quote text q followed by " - ".
StartsWithQuote(s, q) ==
  /\ Len(s) >= Len(q) + 3
  /\ SubSeq(s, 1, Len(q) + 3) = q \o <<" ", "-", " ">>

\* The filter's three conditions stated on the text.
Acceptable(s) ==
  /\ Len(s) + 3 <= LengthCeiling
  /\ ~Blocklisted(s)
  /\ HasPositiveTheme(s)

\* C18: when the pipeline returns in Succeeded, the returned string starts
\* with a quote text that _is_appropriate accepted in the attempt that
\* returned it; that candidate stays the one of the run, and the string
\* published on the live path starts with it.
C18_SucceededWasAccepted ==
  /\ []((state = "Succeeded" /\ pc = "get_emoji") =>
          /\ verdict = "True"
          /\ quote.t = "str"
          /\ Acceptable(quote.v)
          /\ StartsWithQuote(result.text, quote.v))
  /\ []((state = "Succeeded" /\ publish_calls > 0) =>
          /\ verdict = "True"
          /\ StartsWithQuote(payload.status_text, quote.v))
  /\ [][ state = "Succeeded" =>
           (quote' = quote /\ verdict' = verdict /\ result' = result)
       ]_vars

\* C18 witness: after two rejected candidates an accepted one was
\* published.
C18_Witness ==
  /\ state = "Succeeded"
  /\ rejects = 2
  /\ published = "ok"
  /\ Acceptable(QuoteTextOf(payload.status_text))

\* C19: a fallback pair is returned only after a fetch failure or three
\* rejections, never after an accepted candidate, and a returned pair is
\* never replaced by another.
C19_FallbackOnlyOnFailure ==
  /\ [](/\ state = "FellBack" =>
             /\ (ApiErrors # {} \/ rejects = max_attempts)
             /\ verdict # "True"
        /\ (Returned /\ state = "Succeeded") =>
             /\ ApiErrors = {}
             /\ rejects < max_attempts
             /\ result = [text |-> format_quote(quote, author),
                          category |-> result.category])
  /\ [][ /\ state = "Succeeded" => state' = "Succeeded"
         /\ result # NoResult => result' = result
         /\ result' # result => (state = "FellBack" <=> result' \in FallbackPairs)
       ]_vars

\* C19 witness: a fallback pair was returned after a rejection and a fetch
\* failure, with no candidate accepted.
C19_Witness ==
  /\ state = "FellBack"
  /\ pc = "done"
  /\ rejects = 1
  /\ ApiErrors # {}
  /\ result \in FallbackPairs

\* The first category of the table with a keyword in s, else 'general'.
FirstCategory(s) ==
  IF \A i \in 1..Len(categories) : ~CategoryMatches(i, s) THEN "general"
  ELSE categories[CHOOSE i \in 1..Len(categories) :
                    /\ CategoryMatches(i, s)
                    /\ \A j \in 1..(i - 1) : ~CategoryMatches(j, s)].name

\* C20: on the live path the category is determined by the quote text
\* alone, whatever the attribution, also when the attribution contains a
\* category keyword.
C20_CategoryFromQuoteOnly ==
  /\ []((state = "Succeeded" /\ pc = "get_emoji") =>
          result.category = FirstCategory(quote.v))
  /\ [][ state = "Succeeded" => (quote' = quote /\ result' = result) ]_vars

\* C20 witness: a quote without a tech keyword was returned with an
\* attribution containing 'engineer' and a category other than tech.
C20_Witness ==
  /\ state = "Succeeded"
  /\ author.t = "str"
  /\ OccursAnyCase(author.v, <<"e","n","g","i","n","e","e","r">>)
  /\ ~CategoryMatches(1, quote.v)
  /\ result.category = "general"

\* C16: every call of get_random_quote leaves Attempting and reaches
\* Succeeded or FellBack, stays in the one it reached and returns a pair;
\* the attempt counter starts at 1, moves forward by one at a time and
\* stays within 1..3.
C16_PipelineTerminates ==
  /\ <>(state \in {"Succeeded", "FellBack"})
  /\ <>(Returned /\ result # NoResult)
  /\ [](attempt \in 1..max_attempts)
  /\ [](fetches = 0 => (state = "Attempting" /\ attempt = 1))
  /\ [][ /\ attempt' \in {attempt, attempt + 1}
         /\ state # "Attempting" => (state' = state /\ attempt' = attempt)
       ]_vars

\* C16 witness: the call reached FellBack from the third attempt and
\* returned.
C16_Witness ==
  /\ state = "FellBack"
  /\ attempt = 3
  /\ fetches = 3
  /\ Returned

====
